---- MODULE Spec2Model ----
(***************************************************************************)
(* Model of the limit-order-book matching engine of rust-orderbook         *)
(* (src/src/orderbook/book.rs, orders.rs, price_levels.rs, types/).        *)
(*                                                                         *)
(* Prices and quantities are exact decimals in the source; the model uses  *)
(* small naturals.  Timestamps (creation, last_modified, Fill.timestamp,   *)
(* TradeExecution.timestamp) are wall-clock reads that no operation        *)
(* branches on; they are left out of the records.  A Decimal is a value    *)
(* and a scale (10 and 10.0 are equal, hash alike and order alike, and     *)
(* print differently); the scale is kept where the code reads the text of  *)
(* a price, which is the id of a SystemLevel order.                        *)
(***************************************************************************)
EXTENDS Integers, Sequences, FiniteSets, TLC

\* ---------------------------------------------------------------- bounds
MaxPrice == 2
MaxQty == 2
MaxOps == 3
MaxScale == 1
MaxUpdateId == 3
MaxSize == 1
MaxOffers == 1
MaxBuffer == 2

Prices == 0..MaxPrice
Qtys == 1..MaxQty
Scales == 0..MaxScale

VARIABLES asks, bids, order_loc, nextId, panicked, steps, call, pre

\* The depth-feed client (examples/depth_book.rs): its local book, the stage
\* StateComponent::start has reached, the last call made on the local book
\* and the local book before that call.
VARIABLES state, phase, feed, state_pre

depthVars == <<state, phase, feed, state_pre>>

bookVars == <<asks, bids, order_loc, nextId, panicked, steps, call, pre>>

vars == <<bookVars, depthVars>>

\* ---------------------------------------------------------------- values
Sides == {"Ask", "Bid"}

\* Side::opposite
opposite(s) == IF s = "Ask" THEN "Bid" ELSE "Ask"

\* Option<T>: None is the empty tuple, Some(x) a one-element tuple.
None == <<>>
Some(x) == <<x>>
IsSome(o) == o # <<>>
Unwrap(o) == o[1]

\* OrderType: Market carries no price, the other four variants carry one.
Market == [kind |-> "Market"]
Limit(p) == [kind |-> "Limit", price |-> p]
IOC(p) == [kind |-> "IOC", price |-> p]
FOK(p) == [kind |-> "FOK", price |-> p]
SystemLevel(p, scale) == [kind |-> "SystemLevel", price |-> p, scale |-> scale]

OrderTypes == {Market} \cup {Limit(p) : p \in Prices} \cup {IOC(p) : p \in Prices}
                \cup {FOK(p) : p \in Prices}
                \cup {SystemLevel(p, sc) : p \in Prices, sc \in Scales}

\* #[derive(PartialEq)] on OrderType: the variants and the prices are
\* compared, and Decimal equality is by value, whatever the scale.
OrderType_eq(a, b) ==
    /\ a.kind = b.kind
    /\ a.kind # "Market" => a.price = b.price

\* Decimal::to_string: the digits of the value at its scale.
Decimal_to_string(p, scale) == <<p, scale>>

\* create_id_from_bytes: a deterministic id per byte string, kept apart from
\* the time-ordered ids (the positive naturals handed out by nextId).
create_id_from_bytes(bytes) == 0 - (1 + bytes[1] * (MaxScale + 1) + bytes[2])

\* OrderType::generate_id; fresh is the next time-ordered unique id.
generate_id(order_type, fresh) ==
    IF order_type.kind = "SystemLevel"
    THEN create_id_from_bytes(Decimal_to_string(order_type.price, order_type.scale))
    ELSE fresh

\* OrderRequest::new
OrderRequest_new(side, qty, order_type, fresh) ==
    [id |-> generate_id(order_type, fresh), side |-> side, qty |-> qty,
     order_type |-> order_type]

\* Fill::new
Fill_new(qty, price, order_id) == [qty |-> qty, price |-> price, order_id |-> order_id]

\* impl From<OrderRequest> for TradeOrder
TradeOrder_from(order_request) ==
    [id |-> order_request.id, side |-> order_request.side,
     remaining_qty |-> order_request.qty, initial_qty |-> order_request.qty,
     fills |-> <<>>, order_type |-> order_request.order_type]

\* Mutant of filled_by: the fill is the resting order's whole remaining
\* quantity, whatever the incoming order still wants.
filled_by_whole(self, other, price) ==
    LET fill_qty == self.remaining_qty
    IN [self |-> [self EXCEPT !.remaining_qty = @ - fill_qty,
                              !.fills = Append(@, Fill_new(fill_qty, price, other.id))],
        other |-> [other EXCEPT !.remaining_qty = @ - fill_qty,
                                !.fills = Append(@, Fill_new(fill_qty, price, self.id))],
        fill_qty |-> fill_qty]

\* TradeOrder::filled_by: self is the resting order, other the incoming one.
filled_by(self, other, price) ==
    LET fill_qty == IF other.remaining_qty < self.remaining_qty
                    THEN other.remaining_qty ELSE self.remaining_qty
    IN [self |-> [self EXCEPT !.remaining_qty = @ - fill_qty,
                              !.fills = Append(@, Fill_new(fill_qty, price, other.id))],
        other |-> [other EXCEPT !.remaining_qty = @ - fill_qty,
                                !.fills = Append(@, Fill_new(fill_qty, price, self.id))],
        fill_qty |-> fill_qty]

\* Mutant of TradeOrder_cancel: the quantity is taken off without the clamp
\* to what remains.
TradeOrder_cancel_unclamped(self, qty) ==
    [self EXCEPT !.remaining_qty = @ - qty]

\* TradeOrder::cancel
TradeOrder_cancel(self, qty) ==
    LET q == IF qty < self.remaining_qty THEN qty ELSE self.remaining_qty
    IN [self EXCEPT !.remaining_qty = @ - q]

\* TradeOrder::mergable
mergable(self, other) ==
    self.side = other.side /\ OrderType_eq(self.order_type, other.order_type)

\* Mutant of merge: the merged order takes over the fills of the incoming
\* order in place of its own.
merge_reset(self, other) ==
    IF ~mergable(self, other)
    THEN [self |-> self, ret |-> Some(other)]
    ELSE [self |-> [self EXCEPT !.remaining_qty = @ + other.remaining_qty,
                                !.initial_qty = @ + other.initial_qty,
                                !.fills = other.fills],
          ret |-> None]

\* TradeOrder::merge: returns the merged order and None, or the untouched
\* order and Some(other) when the two are not mergable.
merge(self, other) ==
    IF ~mergable(self, other)
    THEN [self |-> self, ret |-> Some(other)]
    ELSE [self |-> [self EXCEPT !.remaining_qty = @ + other.remaining_qty,
                                !.initial_qty = @ + other.initial_qty,
                                !.fills = @ \o other.fills],
          ret |-> None]

\* Mutant of StatusOf: an IOC order without fills is reported Open.
StatusOf_ioc_open(trade_order) ==
    IF trade_order.remaining_qty = 0 THEN "Filled"
    ELSE IF trade_order.fills = <<>>
         THEN (IF trade_order.order_type.kind \in {"Market", "FOK"}
               THEN "Cancelled" ELSE "Open")
         ELSE (IF trade_order.order_type.kind = "FOK"
               THEN "Cancelled" ELSE "PartiallyFilled")

\* Mutant of StatusOf: a Market order that traded and was left with a
\* residual is reported Cancelled.
StatusOf_market_cancelled(trade_order) ==
    IF trade_order.remaining_qty = 0 THEN "Filled"
    ELSE IF trade_order.fills = <<>>
         THEN (IF trade_order.order_type.kind \in {"Limit", "SystemLevel"}
               THEN "Open" ELSE "Cancelled")
         ELSE (IF trade_order.order_type.kind \in {"FOK", "Market"}
               THEN "Cancelled" ELSE "PartiallyFilled")

\* The status computed by impl From<TradeOrder> for OrderResult.
StatusOf(trade_order) ==
    IF trade_order.remaining_qty = 0 THEN "Filled"
    ELSE IF trade_order.fills = <<>>
         THEN CASE trade_order.order_type.kind = "Market" -> "Cancelled"
                [] trade_order.order_type.kind = "Limit" -> "Open"
                [] trade_order.order_type.kind = "IOC" -> "Cancelled"
                [] trade_order.order_type.kind = "FOK" -> "Cancelled"
                [] trade_order.order_type.kind = "SystemLevel" -> "Open"
         ELSE CASE trade_order.order_type.kind = "Market" -> "PartiallyFilled"
                [] trade_order.order_type.kind = "Limit" -> "PartiallyFilled"
                [] trade_order.order_type.kind = "IOC" -> "PartiallyFilled"
                [] trade_order.order_type.kind = "FOK" -> "Cancelled"
                [] trade_order.order_type.kind = "SystemLevel" -> "PartiallyFilled"

\* impl From<TradeOrder> for OrderResult
OrderResult_from(trade_order) ==
    [trade_id |-> trade_order.id, side |-> trade_order.side,
     order_type |-> trade_order.order_type, initial_qty |-> trade_order.initial_qty,
     remaining_qty |-> trade_order.remaining_qty, fills |-> trade_order.fills,
     status |-> StatusOf(trade_order)]

\* impl From<OrderRequest> for OrderResult
OrderResult_from_request(order_request) ==
    [trade_id |-> order_request.id, side |-> order_request.side,
     order_type |-> order_request.order_type, initial_qty |-> order_request.qty,
     remaining_qty |-> order_request.qty, fills |-> <<>>, status |-> "Cancelled"]

\* OrderResult::cancelled
OrderResult_cancelled(trade_order) ==
    [trade_id |-> trade_order.id, side |-> trade_order.side,
     order_type |-> trade_order.order_type, initial_qty |-> trade_order.initial_qty,
     remaining_qty |-> trade_order.remaining_qty, fills |-> trade_order.fills,
     status |-> "Cancelled"]

\* Mutant of TradeExecution_new: the two order ids change places.
TradeExecution_new_swapped(qty, price, taker_order, maker_order, taker_side) ==
    [qty |-> qty, price |-> price, taker_order_id |-> maker_order.id,
     maker_order_id |-> taker_order.id, take_side |-> taker_side]

\* TradeExecution::new
TradeExecution_new(qty, price, taker_order, maker_order, taker_side) ==
    [qty |-> qty, price |-> price, taker_order_id |-> taker_order.id,
     maker_order_id |-> maker_order.id, take_side |-> taker_side]

\* ---------------------------------------------------------------- sequences
RECURSIVE Ascending(_)
\* BTreeSet::iter: the elements in ascending order.
Ascending(S) ==
    IF S = {} THEN <<>>
    ELSE LET m == CHOOSE x \in S : \A y \in S : x <= y
         IN <<m>> \o Ascending(S \ {m})

\* Iterator::rev
Reverse(s) == [i \in 1..Len(s) |-> s[Len(s) + 1 - i]]

RECURSIVE SumQty(_)
\* fold(Decimal::ZERO, |acc, o| acc + o.remaining_qty) over a level
SumQty(level) ==
    IF level = <<>> THEN 0 ELSE Head(level).remaining_qty + SumQty(Tail(level))

\* position(|o| o.id == order_id): 0 when no order of the level has the id
Position(level, order_id) ==
    IF \E i \in 1..Len(level) : level[i].id = order_id
    THEN CHOOSE i \in 1..Len(level) :
            /\ level[i].id = order_id
            /\ \A j \in 1..(i - 1) : level[j].id # order_id
    ELSE 0

\* VecDeque::remove(i)
RemoveAt(level, i) == SubSeq(level, 1, i - 1) \o SubSeq(level, i + 1, Len(level))

\* HashMap::remove on the price-level map
MapRemove(m, k) == [p \in DOMAIN m \ {k} |-> m[p]]

\* HashMap::insert on the price-level map and on the locator
MapInsert(m, k, v) == [p \in DOMAIN m \cup {k} |-> IF p = k THEN v ELSE m[p]]

EmptyMap == [p \in {} |-> 0]

\* ---------------------------------------------------------------- HalfBook
\* HalfBook::new
HalfBook_new(s) == [s |-> s, price_set |-> {}, price_levels |-> EmptyMap]

\* Mutant of HalfBook_add_order: the order joins the front of its level.
HalfBook_add_order_front(hb, price, order) ==
    IF price \in DOMAIN hb.price_levels
    THEN [hb EXCEPT !.price_levels[price] = <<order>> \o @]
    ELSE [hb EXCEPT !.price_set = @ \cup {price},
                    !.price_levels = MapInsert(@, price, <<order>>)]

\* HalfBook::add_order
HalfBook_add_order(hb, price, order) ==
    IF price \in DOMAIN hb.price_levels
    THEN [hb EXCEPT !.price_levels[price] = Append(@, order)]
    ELSE [hb EXCEPT !.price_set = @ \cup {price},
                    !.price_levels = MapInsert(@, price, <<order>>)]

\* Mutant of HalfBook_remove_order: when the level holds the id, the order at
\* the front of the level is the one taken out.
HalfBook_remove_order_front(hb, price, order_id) ==
    IF price \notin DOMAIN hb.price_levels
    THEN [book |-> hb, ret |-> None]
    ELSE LET level == hb.price_levels[price]
         IN IF Position(level, order_id) = 0
            THEN [book |-> hb, ret |-> None]
            ELSE [book |-> IF Tail(level) = <<>>
                           THEN [hb EXCEPT !.price_levels = MapRemove(@, price),
                                           !.price_set = @ \ {price}]
                           ELSE [hb EXCEPT !.price_levels[price] = Tail(level)],
                  ret |-> Some(Head(level))]

\* Mutant of HalfBook_remove_order: an emptied level is dropped from the map
\* and its price stays in price_set.
HalfBook_remove_order_keep_price(hb, price, order_id) ==
    IF price \notin DOMAIN hb.price_levels
    THEN [book |-> hb, ret |-> None]
    ELSE LET level == hb.price_levels[price]
             i == Position(level, order_id)
         IN IF i = 0
            THEN [book |-> hb, ret |-> None]
            ELSE LET rest == RemoveAt(level, i)
                 IN [book |-> IF rest = <<>>
                              THEN [hb EXCEPT !.price_levels = MapRemove(@, price)]
                              ELSE [hb EXCEPT !.price_levels[price] = rest],
                     ret |-> Some(level[i])]

\* HalfBook::remove_order: the book afterwards and the removed order, if any.
HalfBook_remove_order(hb, price, order_id) ==
    IF price \notin DOMAIN hb.price_levels
    THEN [book |-> hb, ret |-> None]
    ELSE LET level == hb.price_levels[price]
             i == Position(level, order_id)
         IN IF i = 0
            THEN [book |-> hb, ret |-> None]
            ELSE LET rest == RemoveAt(level, i)
                 IN [book |-> IF rest = <<>>
                              THEN [hb EXCEPT !.price_levels = MapRemove(@, price),
                                              !.price_set = @ \ {price}]
                              ELSE [hb EXCEPT !.price_levels[price] = rest],
                     ret |-> Some(level[i])]

\* Mutant of PutBack: the maker with residual goes to the back of the level.
PutBack_push_back(price_level, existing_order) ==
    IF existing_order.remaining_qty > 0
    THEN Append(price_level, existing_order)
    ELSE price_level

\* Mutant of PutBack: the maker is never put back, residual or not.
PutBack_drop(price_level, existing_order) == price_level

\* match_order, lines 70-72: a maker with residual returns to the front.
PutBack(price_level, existing_order) ==
    IF existing_order.remaining_qty > 0
    THEN <<existing_order>> \o price_level
    ELSE price_level

RECURSIVE MatchLoop(_, _, _, _, _)
\* The while loop of HalfBook::match_order over one level.
MatchLoop(price_level, incoming_order, price, executions, taker_side) ==
    IF price_level # <<>> /\ incoming_order.remaining_qty > 0
    THEN LET f == filled_by(Head(price_level), incoming_order, price)
             ex == TradeExecution_new(f.fill_qty, price, f.other, f.self, taker_side)
         IN MatchLoop(PutBack(Tail(price_level), f.self), f.other, price,
                      Append(executions, ex), taker_side)
    ELSE [price_level |-> price_level, incoming_order |-> incoming_order,
          executions |-> executions]

\* Mutant of match_order: a level emptied by the matching is left in place.
match_order_no_prune(hb, incoming_order, price) ==
    IF price \in DOMAIN hb.price_levels
    THEN LET m == MatchLoop(hb.price_levels[price], incoming_order, price, <<>>,
                            opposite(hb.s))
         IN [book |-> [hb EXCEPT !.price_levels[price] = m.price_level],
             incoming_order |-> m.incoming_order,
             executions |-> m.executions]
    ELSE [book |-> hb, incoming_order |-> incoming_order, executions |-> <<>>]

\* HalfBook::match_order
match_order(hb, incoming_order, price) ==
    IF price \in DOMAIN hb.price_levels
    THEN LET m == MatchLoop(hb.price_levels[price], incoming_order, price, <<>>,
                            opposite(hb.s))
         IN [book |-> IF m.price_level = <<>>
                      THEN [hb EXCEPT !.price_levels = MapRemove(@, price),
                                      !.price_set = @ \ {price}]
                      ELSE [hb EXCEPT !.price_levels[price] = m.price_level],
             incoming_order |-> m.incoming_order,
             executions |-> m.executions]
    ELSE [book |-> hb, incoming_order |-> incoming_order, executions |-> <<>>]

\* Mutant of best_price: the sides are swapped (the highest ask, the lowest
\* bid).
best_price_swapped(hb) ==
    IF DOMAIN hb.price_levels = {} THEN None
    ELSE IF hb.s = "Bid"
         THEN Some(CHOOSE x \in DOMAIN hb.price_levels :
                       \A y \in DOMAIN hb.price_levels : x <= y)
         ELSE Some(CHOOSE x \in DOMAIN hb.price_levels :
                       \A y \in DOMAIN hb.price_levels : x >= y)

\* HalfBook::best_price with SparseVec::min_index / max_index
best_price(hb) ==
    IF DOMAIN hb.price_levels = {} THEN None
    ELSE IF hb.s = "Ask"
         THEN Some(CHOOSE x \in DOMAIN hb.price_levels :
                       \A y \in DOMAIN hb.price_levels : x <= y)
         ELSE Some(CHOOSE x \in DOMAIN hb.price_levels :
                       \A y \in DOMAIN hb.price_levels : x >= y)

\* Mutant of iter_prices: ascending on both sides (the bid side not reversed).
iter_prices_ascending(hb) == Ascending(hb.price_set)

\* HalfBook::iter_prices: the occupied prices in priority order.
iter_prices(hb) ==
    IF hb.s = "Ask" THEN Ascending(hb.price_set) ELSE Reverse(Ascending(hb.price_set))

\* HalfBook::get_total_qty
get_total_qty(hb, price) ==
    IF price \in DOMAIN hb.price_levels THEN Some(SumQty(hb.price_levels[price])) ELSE None

\* Mutant of InWindow: every occupied price counts as available.
InWindow_all(s, p, target_price) == TRUE

\* Mutant of InWindow: the target price itself is outside the window.
InWindow_strict(s, p, target_price) ==
    IF s = "Ask" THEN p < target_price ELSE p > target_price

\* get_available_quantity, lines 149-152: the take_while predicate.
InWindow(s, p, target_price) ==
    IF s = "Ask" THEN p <= target_price ELSE p >= target_price

\* Mutant of AvailableFrom: only the first level of the window is counted.
AvailableFrom_first(hb, prices, target_price) ==
    IF prices = <<>> \/ ~InWindow(hb.s, Head(prices), target_price) THEN 0
    ELSE LET q == get_total_qty(hb, Head(prices))
         IN IF IsSome(q) THEN Unwrap(q) ELSE 0

RECURSIVE AvailableFrom(_, _, _)
\* take_while(..).map(get_total_qty(..).unwrap_or(0)).sum() over a price list
AvailableFrom(hb, prices, target_price) ==
    IF prices = <<>> \/ ~InWindow(hb.s, Head(prices), target_price) THEN 0
    ELSE LET q == get_total_qty(hb, Head(prices))
         IN (IF IsSome(q) THEN Unwrap(q) ELSE 0)
            + AvailableFrom(hb, Tail(prices), target_price)

\* HalfBook::get_available_quantity
get_available_quantity(hb, target_price) ==
    AvailableFrom(hb, iter_prices(hb), target_price)

\* Option::unwrap_or(Decimal::ZERO)
unwrap_or_zero(o) == IF IsSome(o) THEN Unwrap(o) ELSE 0

\* HalfBook::get_levels: (price, quantity) per occupied price, in priority
\* order.
get_levels(hb) ==
    [i \in 1..Len(iter_prices(hb)) |->
        <<iter_prices(hb)[i], unwrap_or_zero(get_total_qty(hb, iter_prices(hb)[i]))>>]

RECURSIVE SumLevels(_)
\* Iterator::sum over the quantities of a list of (price, quantity)
SumLevels(levels) ==
    IF levels = <<>> THEN 0 ELSE Head(levels)[2] + SumLevels(Tail(levels))

\* HalfBook::get_total_volume
HalfBook_get_total_volume(hb) == SumLevels(get_levels(hb))

\* HalfBook::get_order_mut / get_order: the position of the order in the
\* level at price, 0 when the level or the order is absent.
HalfBook_find(hb, price, order_id) ==
    IF price \in DOMAIN hb.price_levels
    THEN Position(hb.price_levels[price], order_id)
    ELSE 0

RECURSIVE SumLens(_, _)
SumLens(m, keys) ==
    IF keys = {} THEN 0
    ELSE LET k == CHOOSE x \in keys : TRUE
         IN Len(m[k]) + SumLens(m, keys \ {k})

\* HalfBook::get_order_count
HalfBook_get_order_count(hb) == SumLens(hb.price_levels, DOMAIN hb.price_levels)

\* Mutant of HalfBook_get_depth: the orders are counted, not the prices.
HalfBook_get_depth_orders(hb) == HalfBook_get_order_count(hb)

\* HalfBook::get_depth
HalfBook_get_depth(hb) == Cardinality(hb.price_set)

\* ---------------------------------------------------------------- OrderBook
\* OrderBook::default
OrderBook_default ==
    [asks |-> HalfBook_new("Ask"), bids |-> HalfBook_new("Bid"), order_loc |-> EmptyMap]

\* OrderBook::get_book
get_book(ob, side) == IF side = "Ask" THEN ob.asks ELSE ob.bids

\* OrderBook::get_mut_opposite_book
get_opposite_book(ob, side) == IF side = "Ask" THEN ob.bids ELSE ob.asks

\* Writing through the reference returned by get_mut_book
set_book(ob, side, hb) ==
    IF side = "Ask" THEN [ob EXCEPT !.asks = hb] ELSE [ob EXCEPT !.bids = hb]

\* Mutant of get_order_mut: the locator is trusted; when the level it names
\* does not hold the id, the order at the front of that level is returned.
get_order_mut_trusting(ob, order_id) ==
    IF order_id \notin DOMAIN ob.order_loc THEN None
    ELSE LET loc == ob.order_loc[order_id]
             i == HalfBook_find(get_book(ob, loc.side), loc.price, order_id)
         IN IF loc.price \notin DOMAIN get_book(ob, loc.side).price_levels THEN None
            ELSE Some([side |-> loc.side, price |-> loc.price,
                       index |-> IF i = 0 THEN 1 ELSE i])

\* OrderBook::get_order_mut: where the locator and the level find the order
\* ([side, price, index]), or None.
get_order_mut(ob, order_id) ==
    IF order_id \notin DOMAIN ob.order_loc THEN None
    ELSE LET loc == ob.order_loc[order_id]
             i == HalfBook_find(get_book(ob, loc.side), loc.price, order_id)
         IN IF i = 0 THEN None
            ELSE Some([side |-> loc.side, price |-> loc.price, index |-> i])

\* OrderBook::get_order
get_order(ob, order_id) ==
    LET g == get_order_mut(ob, order_id)
    IN IF IsSome(g)
       THEN Some(get_book(ob, Unwrap(g).side).price_levels[Unwrap(g).price][Unwrap(g).index])
       ELSE None

\* OrderBook::delete_order
delete_order(ob, order_id) ==
    IF order_id \notin DOMAIN ob.order_loc
    THEN [ob |-> ob, ret |-> None]
    ELSE LET loc == ob.order_loc[order_id]
             ob1 == [ob EXCEPT !.order_loc = MapRemove(@, order_id)]
             r == HalfBook_remove_order(get_book(ob1, loc.side), loc.price, order_id)
         IN IF IsSome(r.ret)
            THEN [ob |-> set_book(ob1, loc.side, r.book),
                  ret |-> Some(OrderResult_cancelled(Unwrap(r.ret)))]
            ELSE [ob |-> ob1, ret |-> None]

\* Mutant of cancel_order: an order cancelled down to zero is left where it
\* is and reported like any other cancelled order.
cancel_order_no_delete(ob, order_id, qty) ==
    LET g == get_order_mut(ob, order_id)
    IN IF ~IsSome(g) THEN [ob |-> ob, ret |-> None]
       ELSE LET at == Unwrap(g)
                hb == get_book(ob, at.side)
                trade_order == TradeOrder_cancel(hb.price_levels[at.price][at.index], qty)
                ob1 == set_book(ob, at.side,
                         [hb EXCEPT !.price_levels[at.price][at.index] = trade_order])
            IN [ob |-> ob1, ret |-> Some(OrderResult_from(trade_order))]

\* Mutant of cancel_order: an order cancelled in part is moved to the back of
\* its level.
cancel_order_requeue(ob, order_id, qty) ==
    LET g == get_order_mut(ob, order_id)
    IN IF ~IsSome(g) THEN [ob |-> ob, ret |-> None]
       ELSE LET at == Unwrap(g)
                hb == get_book(ob, at.side)
                trade_order == TradeOrder_cancel(hb.price_levels[at.price][at.index], qty)
                ob1 == set_book(ob, at.side,
                         [hb EXCEPT !.price_levels[at.price][at.index] = trade_order])
                ob2 == set_book(ob, at.side,
                         [hb EXCEPT !.price_levels[at.price] =
                             Append(RemoveAt(@, at.index), trade_order)])
            IN IF trade_order.remaining_qty = 0
               THEN delete_order(ob1, order_id)
               ELSE [ob |-> ob2, ret |-> Some(OrderResult_from(trade_order))]

\* OrderBook::cancel_order
cancel_order(ob, order_id, qty) ==
    LET g == get_order_mut(ob, order_id)
    IN IF ~IsSome(g) THEN [ob |-> ob, ret |-> None]
       ELSE LET at == Unwrap(g)
                hb == get_book(ob, at.side)
                trade_order == TradeOrder_cancel(hb.price_levels[at.price][at.index], qty)
                ob1 == set_book(ob, at.side,
                         [hb EXCEPT !.price_levels[at.price][at.index] = trade_order])
            IN IF trade_order.remaining_qty = 0
               THEN delete_order(ob1, order_id)
               ELSE [ob |-> ob1, ret |-> Some(OrderResult_from(trade_order))]

\* Mutant of add_limit_order: the order is appended to its level but the
\* locator is not told.
add_limit_order_no_locator(ob, side, price, order) ==
    [ob |-> set_book(ob, side, HalfBook_add_order(get_book(ob, side), price, order)),
     panicked |-> FALSE]

\* OrderBook::add_limit_order; the assert_eq! on the locator insert panics
\* when the id already has an entry.
add_limit_order(ob, side, price, order) ==
    IF order.id \in DOMAIN ob.order_loc
    THEN [ob |-> [ob EXCEPT !.order_loc =
                      MapInsert(@, order.id, [side |-> side, price |-> price])],
          panicked |-> TRUE]
    ELSE LET ob1 == [ob EXCEPT !.order_loc =
                        MapInsert(@, order.id, [side |-> side, price |-> price])]
         IN [ob |-> set_book(ob1, side, HalfBook_add_order(get_book(ob1, side), price, order)),
             panicked |-> FALSE]

\* Mutant of add_system_order: when the id is not found resting, a locator
\* entry the id already has is kept as it is.
add_system_order_keep_loc(ob, side, price, order) ==
    LET g == get_order_mut(ob, order.id)
    IN IF IsSome(g)
       THEN LET at == Unwrap(g)
                hb == get_book(ob, at.side)
                m == merge(hb.price_levels[at.price][at.index], order)
            IN IF IsSome(m.ret)
               THEN [ob |-> ob, panicked |-> TRUE]
               ELSE [ob |-> set_book(ob, at.side,
                               [hb EXCEPT !.price_levels[at.price][at.index] = m.self]),
                     panicked |-> FALSE]
       ELSE LET ob1 == IF order.id \in DOMAIN ob.order_loc THEN ob
                       ELSE [ob EXCEPT !.order_loc =
                               MapInsert(@, order.id, [side |-> side, price |-> price])]
            IN [ob |-> set_book(ob1, side,
                            HalfBook_add_order(get_book(ob1, side), price, order)),
                panicked |-> FALSE]

\* Mutant of add_system_order: the merged order is taken out of its place
\* and appended at the back of its level.
add_system_order_requeue(ob, side, price, order) ==
    LET g == get_order_mut(ob, order.id)
    IN IF IsSome(g)
       THEN LET at == Unwrap(g)
                hb == get_book(ob, at.side)
                m == merge(hb.price_levels[at.price][at.index], order)
            IN IF IsSome(m.ret)
               THEN [ob |-> ob, panicked |-> TRUE]
               ELSE [ob |-> set_book(ob, at.side,
                               [hb EXCEPT !.price_levels[at.price] =
                                   Append(RemoveAt(@, at.index), m.self)]),
                     panicked |-> FALSE]
       ELSE LET ob1 == [ob EXCEPT !.order_loc =
                           MapInsert(@, order.id, [side |-> side, price |-> price])]
            IN [ob |-> set_book(ob1, side,
                            HalfBook_add_order(get_book(ob1, side), price, order)),
                panicked |-> FALSE]

\* OrderBook::add_system_order; the assert_eq! on merge panics when the
\* resting order refuses the merge.
add_system_order(ob, side, price, order) ==
    LET g == get_order_mut(ob, order.id)
    IN IF IsSome(g)
       THEN LET at == Unwrap(g)
                hb == get_book(ob, at.side)
                m == merge(hb.price_levels[at.price][at.index], order)
            IN IF IsSome(m.ret)
               THEN [ob |-> ob, panicked |-> TRUE]
               ELSE [ob |-> set_book(ob, at.side,
                               [hb EXCEPT !.price_levels[at.price][at.index] = m.self]),
                     panicked |-> FALSE]
       ELSE LET ob1 == [ob EXCEPT !.order_loc =
                           MapInsert(@, order.id, [side |-> side, price |-> price])]
            IN [ob |-> set_book(ob1, side,
                            HalfBook_add_order(get_book(ob1, side), price, order)),
                panicked |-> FALSE]

\* Mutant of PriceFilter: the taker's limit is ignored.
PriceFilter_none(trade_order, p) == TRUE

\* Mutant of PriceFilter: a level at exactly the taker's limit is passed over.
PriceFilter_strict(trade_order, p) ==
    IF trade_order.order_type.kind = "Market" THEN TRUE
    ELSE IF trade_order.side = "Bid"
         THEN trade_order.order_type.price > p
         ELSE trade_order.order_type.price < p

\* add_order, lines 320-330: the filter on the opposite side's prices.
PriceFilter(trade_order, p) ==
    IF trade_order.order_type.kind = "Market" THEN TRUE
    ELSE IF trade_order.side = "Bid"
         THEN trade_order.order_type.price >= p
         ELSE trade_order.order_type.price <= p

\* Mutant of MatchPrices: only the best of the filtered prices is matched.
MatchPrices_first(opposite_book, trade_order, prices, executions) ==
    IF prices = <<>>
    THEN [book |-> opposite_book, trade_order |-> trade_order, executions |-> executions]
    ELSE LET m == match_order(opposite_book, trade_order, Head(prices))
         IN [book |-> m.book, trade_order |-> m.incoming_order,
             executions |-> executions \o m.executions]

RECURSIVE MatchPrices(_, _, _, _)
\* add_order, lines 333-339: the loop over the filtered prices.
MatchPrices(opposite_book, trade_order, prices, executions) ==
    IF prices = <<>>
    THEN [book |-> opposite_book, trade_order |-> trade_order, executions |-> executions]
    ELSE LET m == match_order(opposite_book, trade_order, Head(prices))
         IN IF m.incoming_order.remaining_qty = 0
            THEN [book |-> m.book, trade_order |-> m.incoming_order,
                  executions |-> executions \o m.executions]
            ELSE MatchPrices(m.book, m.incoming_order, Tail(prices),
                             executions \o m.executions)

\* Mutant of rest_order: an IOC residual rests like a Limit residual.
rest_order_ioc(ob, trade_order) ==
    IF /\ trade_order.order_type.kind \in {"Limit", "IOC"}
       /\ trade_order.order_type.price > 0
       /\ trade_order.remaining_qty > 0
    THEN add_limit_order(ob, trade_order.side, trade_order.order_type.price, trade_order)
    ELSE IF /\ trade_order.order_type.kind = "SystemLevel"
            /\ trade_order.order_type.price > 0
            /\ trade_order.remaining_qty > 0
         THEN add_system_order(ob, trade_order.side, trade_order.order_type.price,
                               trade_order)
         ELSE [ob |-> ob, panicked |-> FALSE]

\* add_order, lines 341-353: what becomes of the taker after matching.
rest_order(ob, trade_order) ==
    IF /\ trade_order.order_type.kind = "Limit"
       /\ trade_order.order_type.price > 0
       /\ trade_order.remaining_qty > 0
    THEN add_limit_order(ob, trade_order.side, trade_order.order_type.price, trade_order)
    ELSE IF /\ trade_order.order_type.kind = "SystemLevel"
            /\ trade_order.order_type.price > 0
            /\ trade_order.remaining_qty > 0
         THEN add_system_order(ob, trade_order.side, trade_order.order_type.price,
                               trade_order)
         ELSE [ob |-> ob, panicked |-> FALSE]

\* OrderBook::add_order
add_order(ob, order) ==
    LET opposite_book == get_opposite_book(ob, order.side)
    IN IF /\ order.order_type.kind = "FOK"
          /\ get_available_quantity(opposite_book, order.order_type.price) < order.qty
       THEN [ob |-> ob, result |-> OrderResult_from_request(order), executions |-> <<>>,
             panicked |-> FALSE]
       ELSE LET trade_order == TradeOrder_from(order)
                Keep(p) == PriceFilter(trade_order, p)
                filtered_prices == SelectSeq(iter_prices(opposite_book), Keep)
                m == MatchPrices(opposite_book, trade_order, filtered_prices, <<>>)
                ob1 == set_book(ob, opposite(order.side), m.book)
                r == rest_order(ob1, m.trade_order)
            IN [ob |-> r.ob, result |-> OrderResult_from(m.trade_order),
                executions |-> m.executions, panicked |-> r.panicked]

\* OrderBook::best_bid
best_bid(ob) == best_price(ob.bids)

\* OrderBook::best_ask
best_ask(ob) == best_price(ob.asks)

\* Mutant of spread: the subtraction is the wrong way round.
spread_reversed(ob) ==
    IF IsSome(best_ask(ob)) /\ IsSome(best_bid(ob))
       /\ Unwrap(best_ask(ob)) > Unwrap(best_bid(ob))
    THEN Some(Unwrap(best_bid(ob)) - Unwrap(best_ask(ob)))
    ELSE None

\* OrderBook::spread
spread(ob) ==
    IF IsSome(best_ask(ob)) /\ IsSome(best_bid(ob))
       /\ Unwrap(best_ask(ob)) > Unwrap(best_bid(ob))
    THEN Some(Unwrap(best_ask(ob)) - Unwrap(best_bid(ob)))
    ELSE None

\* OrderBook::get_depth
get_depth(ob) == <<HalfBook_get_depth(ob.asks), HalfBook_get_depth(ob.bids)>>

\* Mutant of get_order_book_state: the ask levels are not reversed.
get_order_book_state_no_reverse(ob) ==
    [asks |-> get_levels(ob.asks), bids |-> get_levels(ob.bids)]

\* OrderBook::get_order_book_state
get_order_book_state(ob) ==
    [asks |-> Reverse(get_levels(ob.asks)), bids |-> get_levels(ob.bids)]

\* OrderBook::get_total_volume
get_total_volume(ob) ==
    HalfBook_get_total_volume(ob.asks) + HalfBook_get_total_volume(ob.bids)

\* OrderBook::get_volume_at_price
get_volume_at_price(ob, side, price) == get_total_qty(get_book(ob, side), price)

\* OrderBook::get_order_count
OrderBook_get_order_count(ob) == Cardinality(DOMAIN ob.order_loc)

\* HalfBook::is_empty
HalfBook_is_empty(hb) == hb.price_set = {}

\* OrderBook::is_empty
is_empty(ob) == HalfBook_is_empty(ob.asks) /\ HalfBook_is_empty(ob.bids)

\* Mutant of clear: the half-books are emptied and the locator is kept.
clear_keep_locator(ob) == [OrderBook_default EXCEPT !.order_loc = ob.order_loc]

\* OrderBook::clear
clear(ob) == OrderBook_default

\* ---------------------------------------------------------------- depth feed
\* examples/depth_book.rs.  Update ids are u64; prices and sizes are Decimals
\* that the BTreeMaps key and compare by value.
UpdateIds == 0..MaxUpdateId

DepthPrices == 1..MaxPrice

Sizes == 0..MaxSize

\* OfferData, and the offer lists a message carries
OfferData == [price : DepthPrices, size : Sizes]

Offers == UNION {[1..n -> OfferData] : n \in 0..MaxOffers}

\* DepthUpdate: nothing relates first_update_id to final_update_id
DepthUpdates ==
    [first_update_id : UpdateIds, final_update_id : UpdateIds, bids : Offers, asks : Offers]

\* DepthSnapshot
DepthSnapshots == [last_update_id : UpdateIds, bids : Offers, asks : Offers]

\* OrderBookState::default, the state StateComponent is built with
OrderBookState_default == [bids |-> EmptyMap, asks |-> EmptyMap, last_update_id |-> 0]

\* One loop of apply_snapshot: offers of positive size are inserted in turn.
RECURSIVE InsertPositive(_, _)
InsertPositive(m, offers) ==
    IF offers = <<>> THEN m
    ELSE InsertPositive(IF Head(offers).size > 0
                        THEN MapInsert(m, Head(offers).price, Head(offers).size)
                        ELSE m,
                        Tail(offers))

\* OrderBookState::apply_snapshot
apply_snapshot(st, snapshot) ==
    [bids |-> InsertPositive(EmptyMap, snapshot.bids),
     asks |-> InsertPositive(EmptyMap, snapshot.asks),
     last_update_id |-> snapshot.last_update_id]

\* One loop of apply_update_changes: a positive size is inserted over what
\* the price had, any other size removes the price.
RECURSIVE ApplyOffers(_, _)
ApplyOffers(m, offers) ==
    IF offers = <<>> THEN m
    ELSE ApplyOffers(IF Head(offers).size > 0
                     THEN MapInsert(m, Head(offers).price, Head(offers).size)
                     ELSE MapRemove(m, Head(offers).price),
                     Tail(offers))

\* OrderBookState::apply_update_changes
apply_update_changes(st, update) ==
    [state |-> [bids |-> ApplyOffers(st.bids, update.bids),
                asks |-> ApplyOffers(st.asks, update.asks),
                last_update_id |-> update.final_update_id],
     result |-> "Ok"]

\* Mutant of process_update: old updates are not ignored.
process_update_no_stale_check(st, update) ==
    IF update.first_update_id > st.last_update_id + 1
    THEN [state |-> st, result |-> "Err"]
    ELSE apply_update_changes(st, update)

\* OrderBookState::process_update.  The sum last_update_id + 1 is computed
\* only after final_update_id > last_update_id, so it stays within u64.
process_update(st, update) ==
    IF update.final_update_id <= st.last_update_id
    THEN [state |-> st, result |-> "Ok"]
    ELSE IF update.first_update_id > st.last_update_id + 1
         THEN [state |-> st, result |-> "Err"]
         ELSE apply_update_changes(st, update)

\* OrderBookState::process_buffer
RECURSIVE process_buffer(_, _)
process_buffer(st, buffer) ==
    IF buffer = <<>> THEN [state |-> st, result |-> "Ok"]
    ELSE LET update == Head(buffer)
         IN IF update.final_update_id <= st.last_update_id
            THEN process_buffer(st, Tail(buffer))
            ELSE IF update.first_update_id <= st.last_update_id + 1
                 THEN process_buffer(apply_update_changes(st, update).state, Tail(buffer))
                 ELSE [state |-> st, result |-> "Err"]

\* ---------------------------------------------------------------- state machine
\* The book as one record, and the ids a caller can hold.
Book == [asks |-> asks, bids |-> bids, order_loc |-> order_loc]

IssuedIds ==
    (1..(nextId - 1))
      \cup {create_id_from_bytes(Decimal_to_string(p, sc)) : p \in Prices, sc \in Scales}

Init ==
    /\ asks = OrderBook_default.asks
    /\ bids = OrderBook_default.bids
    /\ order_loc = OrderBook_default.order_loc
    /\ nextId = 1
    /\ panicked = FALSE
    /\ steps = 0
    /\ call = [op |-> "new", request |-> None, order_id |-> 0, qty |-> 0,
               ret |-> None, executions |-> <<>>]
    /\ pre = OrderBook_default
    /\ state = OrderBookState_default
    /\ phase = "created"
    /\ feed = [op |-> "default", updates |-> <<>>, result |-> "Ok"]
    /\ state_pre = OrderBookState_default

\* book.add_order(OrderRequest::new(side, qty, order_type))
AddOrder ==
    /\ ~panicked
    /\ steps < MaxOps
    /\ \E side \in Sides, qty \in Qtys, order_type \in OrderTypes :
         LET order == OrderRequest_new(side, qty, order_type, nextId)
             r == add_order(Book, order)
         IN /\ asks' = r.ob.asks
            /\ bids' = r.ob.bids
            /\ order_loc' = r.ob.order_loc
            /\ panicked' = r.panicked
            /\ nextId' = IF order.id = nextId THEN nextId + 1 ELSE nextId
            /\ call' = [op |-> "add_order", request |-> Some(order), order_id |-> order.id,
                        qty |-> qty,
                        ret |-> IF r.panicked THEN None ELSE Some(r.result),
                        executions |-> IF r.panicked THEN <<>> ELSE r.executions]
    /\ pre' = Book
    /\ steps' = steps + 1
    /\ UNCHANGED depthVars

\* book.cancel_order(order_id, qty)
CancelOrder ==
    /\ ~panicked
    /\ steps < MaxOps
    /\ \E order_id \in IssuedIds, qty \in Qtys :
         LET r == cancel_order(Book, order_id, qty)
         IN /\ asks' = r.ob.asks
            /\ bids' = r.ob.bids
            /\ order_loc' = r.ob.order_loc
            /\ call' = [op |-> "cancel_order", request |-> None, order_id |-> order_id,
                        qty |-> qty, ret |-> r.ret, executions |-> <<>>]
    /\ pre' = Book
    /\ steps' = steps + 1
    /\ UNCHANGED depthVars
    /\ UNCHANGED <<nextId, panicked>>

\* book.delete_order(order_id)
DeleteOrder ==
    /\ ~panicked
    /\ steps < MaxOps
    /\ \E order_id \in IssuedIds :
         LET r == delete_order(Book, order_id)
         IN /\ asks' = r.ob.asks
            /\ bids' = r.ob.bids
            /\ order_loc' = r.ob.order_loc
            /\ call' = [op |-> "delete_order", request |-> None, order_id |-> order_id,
                        qty |-> 0, ret |-> r.ret, executions |-> <<>>]
    /\ pre' = Book
    /\ steps' = steps + 1
    /\ UNCHANGED depthVars
    /\ UNCHANGED <<nextId, panicked>>

\* book.clear()
Clear ==
    /\ ~panicked
    /\ steps < MaxOps
    /\ asks' = clear(Book).asks
    /\ bids' = clear(Book).bids
    /\ order_loc' = clear(Book).order_loc
    /\ call' = [op |-> "clear", request |-> None, order_id |-> 0, qty |-> 0,
                ret |-> None, executions |-> <<>>]
    /\ pre' = Book
    /\ steps' = steps + 1
    /\ UNCHANGED depthVars
    /\ UNCHANGED <<nextId, panicked>>

Next == AddOrder \/ CancelOrder \/ DeleteOrder \/ Clear

Spec == Init /\ [][Next]_vars

\* ---------------------------------------------------------------- properties
\* What the last call was and what it returned.
IsAdd == call.op = "add_order" /\ IsSome(call.ret)
Req == Unwrap(call.request)
Ret == Unwrap(call.ret)
Execs == call.executions

RECURSIVE SumExecQty(_)
SumExecQty(execs) ==
    IF execs = <<>> THEN 0 ELSE Head(execs).qty + SumExecQty(Tail(execs))

\* The quantity the executions in execs took from maker id at price p.
FilledOf(execs, id, p) ==
    LET Mine(e) == e.maker_order_id = id /\ e.price = p
    IN SumExecQty(SelectSeq(execs, Mine))

\* The quantity the executions in execs took at price p.
FilledAt(execs, p) ==
    LET There(e) == e.price = p
    IN SumExecQty(SelectSeq(execs, There))

\* The level at price p of a half-book, empty when the price is unoccupied.
LevelAt(hb, p) == IF p \in DOMAIN hb.price_levels THEN hb.price_levels[p] ELSE <<>>

\* The resting orders of a half-book as a set of [side, price, index, order].
Resting(hb) ==
    UNION {{[side |-> hb.s, price |-> p, index |-> i, order |-> hb.price_levels[p][i]] :
               i \in 1..Len(hb.price_levels[p])} : p \in DOMAIN hb.price_levels}

AllResting == Resting(asks) \cup Resting(bids)

\* C1: price-time priority.  In every add_order call and every level of the
\* opposite side as it was before the call: an order receives a fill only if
\* every order queued before it at that price was filled completely, the
\* fills of an earlier order precede those of a later one, and what is left
\* of the level afterwards is the tail of the old queue in the old order, a
\* partially filled order still at its front.  On the taker's own side the
\* orders already queued keep their places ahead of anything the call adds.
C1_PriceTimePriority ==
    IsAdd =>
      LET before == get_opposite_book(pre, Req.side)
          after == get_opposite_book(Book, Req.side)
          own == get_book(pre, Req.side)
      IN /\ \A p \in DOMAIN own.price_levels :
              LET old == own.price_levels[p]
                  new == LevelAt(get_book(Book, Req.side), p)
              IN /\ Len(new) >= Len(old)
                 /\ \A i \in 1..Len(old) : new[i].id = old[i].id
         /\ \A p \in DOMAIN before.price_levels :
           LET old == before.price_levels[p]
               new == LevelAt(after, p)
               gone == Len(old) - Len(new)
           IN /\ \A i \in 1..Len(old) : \A j \in 1..Len(old) :
                   (i < j /\ FilledOf(Execs, old[j].id, p) > 0)
                     => FilledOf(Execs, old[i].id, p) = old[i].remaining_qty
              /\ \A a \in 1..Len(Execs) : \A b \in 1..Len(Execs) :
                   \A i \in 1..Len(old) : \A j \in 1..Len(old) :
                     ( /\ i < j
                       /\ Execs[a].price = p /\ Execs[b].price = p
                       /\ Execs[a].maker_order_id = old[i].id
                       /\ Execs[b].maker_order_id = old[j].id ) => a < b
              /\ gone >= 0
              /\ \A k \in 1..Len(new) :
                   /\ new[k].id = old[gone + k].id
                   /\ new[k].remaining_qty =
                        old[gone + k].remaining_qty - FilledOf(Execs, new[k].id, p)
                   /\ k > 1 => new[k] = old[gone + k]

\* C1 witness: a taker has partially filled the first of two orders queued
\* at one price; it is still first and the second is untouched behind it.
C1_Witness ==
    /\ IsAdd
    /\ \E p \in DOMAIN get_opposite_book(pre, Req.side).price_levels :
         LET old == get_opposite_book(pre, Req.side).price_levels[p]
             new == LevelAt(get_opposite_book(Book, Req.side), p)
         IN /\ Len(old) >= 2
            /\ FilledOf(Execs, old[1].id, p) > 0
            /\ FilledOf(Execs, old[1].id, p) < old[1].remaining_qty
            /\ Len(new) = Len(old)
            /\ new[1].id = old[1].id
            /\ new[2] = old[2]

\* C2: FOK atomicity.  An add_order of a FOK request that returns Cancelled
\* returns no execution and leaves both half-books and the locator as they
\* were before the call.
C2_FokAtomicity ==
    (IsAdd /\ Req.order_type.kind = "FOK" /\ Ret.status = "Cancelled")
      => /\ Execs = <<>>
         /\ Book = pre

\* C2 witness: a FOK was cancelled although the opposite side held some, but
\* not enough, quantity within its price.
C2_Witness ==
    /\ IsAdd
    /\ Req.order_type.kind = "FOK"
    /\ Ret.status = "Cancelled"
    /\ \E p \in DOMAIN get_opposite_book(pre, Req.side).price_levels :
         IF Req.side = "Bid" THEN p <= Req.order_type.price ELSE p >= Req.order_type.price

RECURSIVE SumOver(_, _)
\* The total resting quantity of a half-book over the prices in ps.
SumOver(hb, ps) ==
    IF ps = {} THEN 0
    ELSE LET p == CHOOSE x \in ps : TRUE
         IN SumQty(hb.price_levels[p]) + SumOver(hb, ps \ {p})

\* The opposite side's resting quantity within limit P for a taker on side.
WithinLimit(ob, side, P) ==
    LET hb == get_opposite_book(ob, side)
    IN SumOver(hb, {p \in DOMAIN hb.price_levels :
                      IF side = "Bid" THEN p <= P ELSE p >= P})

\* C3: FOK is all-or-nothing.  A FOK(P) request is Cancelled exactly when the
\* opposite side held less than qty within P before the call; otherwise it is
\* Filled with nothing remaining and executions summing to qty.
C3_FokAllOrNothing ==
    (IsAdd /\ Req.order_type.kind = "FOK")
      => /\ Ret.status \in {"Cancelled", "Filled"}
         /\ (Ret.status = "Cancelled")
              <=> (WithinLimit(pre, Req.side, Req.order_type.price) < Req.qty)
         /\ Ret.status = "Filled"
              => (Ret.remaining_qty = 0 /\ SumExecQty(Execs) = Req.qty)

\* C3 witness: a FOK was filled out of more than one resting order.
C3_Witness ==
    /\ IsAdd
    /\ Req.order_type.kind = "FOK"
    /\ Ret.status = "Filled"
    /\ Len(Execs) >= 2

\* C4: locator soundness.  Every locator entry id -> (side, price) names a
\* level of that side that holds an order with that id.
C4_LocatorSound ==
    \A id \in DOMAIN order_loc :
        HalfBook_find(get_book(Book, order_loc[id].side), order_loc[id].price, id) # 0

\* C5: locator completeness.  Every resting order has a locator entry under
\* its id that names the order's own side and the price of its level.
C5_LocatorComplete ==
    \A r \in AllResting :
        /\ r.order.id \in DOMAIN order_loc
        /\ order_loc[r.order.id] = [side |-> r.side, price |-> r.price]
        /\ r.order.side = r.side

\* C5 witness: a taker matched, came to rest with its residual, and an older
\* order rests too.
C5_Witness ==
    /\ IsAdd
    /\ Execs # <<>>
    /\ \E r \in AllResting : r.order.id = Req.id /\ r.order.remaining_qty = Ret.remaining_qty
    /\ \E r \in AllResting : r.order.id # Req.id

\* C6: order-count invariant.  OrderBook.get_order_count() equals the sum of
\* the two half-books' order counts (and is, by its definition, the number
\* of locator entries).
C6_OrderCount ==
    /\ OrderBook_get_order_count(Book)
         = HalfBook_get_order_count(asks) + HalfBook_get_order_count(bids)
    /\ OrderBook_get_order_count(Book) = Cardinality(DOMAIN order_loc)

\* The status the table of the specification assigns to a result of the
\* given order type, remaining quantity and fills.
TableStatus(kind, remaining, fills) ==
    IF remaining = 0 THEN "Filled"
    ELSE IF fills = <<>>
         THEN (IF kind \in {"Limit", "SystemLevel"} THEN "Open" ELSE "Cancelled")
         ELSE (IF kind = "FOK" THEN "Cancelled" ELSE "PartiallyFilled")

\* C7: status derivation.  The status add_order returns is the one the table
\* gives for the result's order type, remaining quantity and fills.
C7_StatusDerivation ==
    IsAdd => Ret.status = TableStatus(Ret.order_type.kind, Ret.remaining_qty, Ret.fills)

\* C7 witness: an IOC that found nothing to match came back with its whole
\* quantity and no fills.
C7_Witness ==
    /\ IsAdd
    /\ Req.order_type.kind = "IOC"
    /\ Ret.remaining_qty > 0
    /\ Ret.fills = <<>>
    /\ get_opposite_book(pre, Req.side).price_set # {}

\* C8: price priority across levels.  The executions of one add_order are
\* ordered by price (non-decreasing for a bid taker, non-increasing for an ask
\* taker), and an execution at a level comes only after every better-priced
\* opposite level has been emptied by the executions before it.
C8_PricePriority ==
    IsAdd =>
      LET before == get_opposite_book(pre, Req.side)
          Better(q, p) == IF Req.side = "Bid" THEN q < p ELSE q > p
      IN /\ \A a \in 1..Len(Execs) : \A b \in 1..Len(Execs) :
              a < b => ~Better(Execs[b].price, Execs[a].price)
         /\ \A k \in 1..Len(Execs) :
              \A q \in DOMAIN before.price_levels :
                Better(q, Execs[k].price)
                  => FilledAt(SubSeq(Execs, 1, k - 1), q) = SumQty(before.price_levels[q])

\* C8 witness: one taker was filled at two different prices.
C8_Witness ==
    /\ IsAdd
    /\ \E a \in 1..Len(Execs) : \E b \in 1..Len(Execs) : Execs[a].price # Execs[b].price

\* C9: limit-price constraint.  Every execution of a Limit, IOC, FOK or
\* SystemLevel taker is priced within the taker's limit, and its price is the
\* price of the level its maker was resting at before the call.
C9_LimitPrice ==
    IsAdd =>
      \A k \in 1..Len(Execs) :
        /\ Req.order_type.kind # "Market"
             => IF Req.side = "Bid"
                THEN Execs[k].price <= Req.order_type.price
                ELSE Execs[k].price >= Req.order_type.price
        /\ HalfBook_find(get_opposite_book(pre, Req.side), Execs[k].price,
                         Execs[k].maker_order_id) # 0

\* C9 witness: a priced taker was filled at a price strictly better than its
\* own limit.
C9_Witness ==
    /\ IsAdd
    /\ Req.order_type.kind # "Market"
    /\ \E k \in 1..Len(Execs) : Execs[k].price # Req.order_type.price

\* C10: Market, IOC and FOK orders never rest.  After add_order of such a
\* request no level holds an order with the request's id, the locator has no
\* entry for it, and the taker's own side is as it was before the call.
C10_NeverRests ==
    (IsAdd /\ Req.order_type.kind \in {"Market", "IOC", "FOK"})
      => /\ \A r \in AllResting : r.order.id # Req.id
         /\ Req.id \notin DOMAIN order_loc
         /\ get_book(Book, Req.side) = get_book(pre, Req.side)

\* C10 witness: an IOC with a positive price was partially filled and its
\* residual discarded.
C10_Witness ==
    /\ IsAdd
    /\ Req.order_type.kind = "IOC"
    /\ Req.order_type.price > 0
    /\ Execs # <<>>
    /\ Ret.remaining_qty > 0

\* The resting orders of a whole book.
RestingIn(ob) == Resting(ob.asks) \cup Resting(ob.bids)

\* The fills a taker holds after the executions execs, one per execution.
TakerFills(execs) ==
    [k \in 1..Len(execs) |->
        Fill_new(execs[k].qty, execs[k].price, execs[k].maker_order_id)]

\* C11: Limit residual rests.  After add_order of a Limit(P) request with
\* P > 0 that returns with a residual r > 0, exactly one order with the
\* request's id rests; it is the last order of the level at P on the
\* request's own side, behind the orders that were there before; its
\* remaining quantity is r = qty less what was executed, its fills are the
\* ones it received as taker, and the locator maps its id to (side, P).
C11_LimitResidualRests ==
    (IsAdd /\ Req.order_type.kind = "Limit" /\ Req.order_type.price > 0
           /\ Ret.remaining_qty > 0)
      => LET P == Req.order_type.price
             old == LevelAt(get_book(pre, Req.side), P)
             new == LevelAt(get_book(Book, Req.side), P)
         IN /\ Cardinality({r \in AllResting : r.order.id = Req.id}) = 1
            /\ Len(new) = Len(old) + 1
            /\ SubSeq(new, 1, Len(old)) = old
            /\ new[Len(new)].id = Req.id
            /\ new[Len(new)].side = Req.side
            /\ new[Len(new)].remaining_qty = Ret.remaining_qty
            /\ new[Len(new)].remaining_qty = Req.qty - SumExecQty(Execs)
            /\ new[Len(new)].initial_qty = Req.qty
            /\ new[Len(new)].fills = TakerFills(Execs)
            /\ Req.id \in DOMAIN order_loc
            /\ order_loc[Req.id] = [side |-> Req.side, price |-> P]

\* C11 witness: a Limit taker was partly filled and its residual, smaller
\* than the quantity it asked for, came to rest at its own price.
C11_Witness ==
    /\ IsAdd
    /\ Req.order_type.kind = "Limit"
    /\ Execs # <<>>
    /\ Ret.remaining_qty > 0
    /\ \E r \in AllResting :
         /\ r.order.id = Req.id
         /\ r.price = Req.order_type.price
         /\ r.order.remaining_qty < Req.qty

\* The opposite-side prices a taker may trade at: all of them for a Market
\* order, those at or better than its limit otherwise.
Acceptable(request, p) ==
    IF request.order_type.kind = "Market" THEN TRUE
    ELSE IF request.side = "Bid" THEN p <= request.order_type.price
         ELSE p >= request.order_type.price

\* The opposite-side levels the last call's taker could still trade with.
LeftWithin ==
    {p \in DOMAIN get_opposite_book(Book, Req.side).price_levels : Acceptable(Req, p)}

\* C12 as stated: whenever add_order returns with a remaining quantity above
\* zero, whatever the order type, no opposite-side level within the taker's
\* price constraint is left.
C12_ExhaustiveMatching_AnyType ==
    (IsAdd /\ Ret.remaining_qty > 0) => LeftWithin = {}

\* C12: exhaustive matching.  Whenever add_order of a Market, Limit, IOC or
\* SystemLevel request returns with a remaining quantity above zero, no
\* opposite-side level within the taker's price constraint is left (none at
\* all for a Market order); where such a level is left, the taker was filled
\* completely.  A FOK request that returns unfilled was never matched.
C12_ExhaustiveMatching ==
    IsAdd =>
      /\ (Req.order_type.kind # "FOK" /\ Ret.remaining_qty > 0) => LeftWithin = {}
      /\ (Req.order_type.kind = "Market" /\ Ret.remaining_qty > 0)
            => get_opposite_book(Book, Req.side).price_set = {}
      /\ (Req.order_type.kind # "FOK" /\ LeftWithin # {}) => Ret.remaining_qty = 0
      /\ (Req.order_type.kind = "FOK" /\ Ret.remaining_qty > 0)
            => (Execs = <<>> /\ Ret.remaining_qty = Req.qty)

\* C12 witness: a priced taker took everything within its limit, was left
\* with a residual, and a level beyond its limit is still there.
C12_Witness ==
    /\ IsAdd
    /\ Req.order_type.kind \in {"Limit", "IOC", "SystemLevel"}
    /\ Execs # <<>>
    /\ Ret.remaining_qty > 0
    /\ get_opposite_book(Book, Req.side).price_set # {}

\* The smaller of two quantities.
Min(a, b) == IF a < b THEN a ELSE b

\* The order with the given id at price p of a half-book; asked only where
\* there is one.
OrderAt(hb, p, id) == hb.price_levels[p][HalfBook_find(hb, p, id)]

\* C13: per-match quantity conservation.  Each execution of an add_order is
\* one match of the taker with one maker resting on the opposite side: its
\* quantity is the smaller of the taker's remaining quantity before the match
\* (qty less the executions so far) and the maker's remaining quantity before
\* the call; the taker gains one Fill of that quantity and price naming the
\* maker and ends with qty less the executed total; a maker that is still
\* resting has lost exactly that quantity and gained one Fill of that
\* quantity and price naming the taker; a maker filled to zero has left its
\* level; no maker is matched twice.
C13_MatchConservation ==
    IsAdd =>
      LET before == get_opposite_book(pre, Req.side)
          after == get_opposite_book(Book, Req.side)
      IN /\ Ret.remaining_qty = Req.qty - SumExecQty(Execs)
         /\ Ret.fills = TakerFills(Execs)
         /\ \A a \in 1..Len(Execs) : \A b \in 1..Len(Execs) :
              a # b => Execs[a].maker_order_id # Execs[b].maker_order_id
         /\ \A k \in 1..Len(Execs) :
              LET e == Execs[k]
                  taker_remaining == Req.qty - SumExecQty(SubSeq(Execs, 1, k - 1))
              IN /\ e.taker_order_id = Req.id
                 /\ e.take_side = Req.side
                 /\ HalfBook_find(before, e.price, e.maker_order_id) # 0
                 /\ LET maker == OrderAt(before, e.price, e.maker_order_id)
                    IN /\ e.qty = Min(taker_remaining, maker.remaining_qty)
                       /\ e.qty > 0
                       /\ IF maker.remaining_qty > e.qty
                          THEN /\ HalfBook_find(after, e.price, maker.id) # 0
                               /\ OrderAt(after, e.price, maker.id) =
                                    [maker EXCEPT
                                       !.remaining_qty = @ - e.qty,
                                       !.fills = Append(@, Fill_new(e.qty, e.price, Req.id))]
                          ELSE HalfBook_find(after, e.price, maker.id) = 0

\* C13 witness: a taker matched two makers in one call, exhausting the first
\* and leaving the second resting with a residual.
C13_Witness ==
    /\ IsAdd
    /\ Len(Execs) = 2
    /\ HalfBook_find(get_opposite_book(Book, Req.side), Execs[2].price,
                     Execs[2].maker_order_id) # 0
    /\ Ret.remaining_qty = 0

RECURSIVE SumFills(_)
\* The total quantity of a sequence of Fill records.
SumFills(fills) ==
    IF fills = <<>> THEN 0 ELSE Head(fills).qty + SumFills(Tail(fills))

\* C14: fill accounting.  For every resting order, and for the result the
\* last add_order, cancel_order or delete_order returned, initial_qty less
\* remaining_qty equals the sum of the quantities of its fills.
C14_FillAccounting ==
    /\ \A r \in AllResting :
         r.order.initial_qty - r.order.remaining_qty = SumFills(r.order.fills)
    /\ IsSome(call.ret)
         => Ret.initial_qty - Ret.remaining_qty = SumFills(Ret.fills)

\* C15: quantity bounds.  Every resting order and every returned result has
\* 0 <= remaining_qty <= initial_qty; a cancel_order for more than the order
\* has left returns a remaining quantity of zero, never a negative one.
C15_QuantityBounds ==
    /\ \A r \in AllResting :
         /\ 0 <= r.order.remaining_qty
         /\ r.order.remaining_qty <= r.order.initial_qty
    /\ IsSome(call.ret)
         => /\ 0 <= Ret.remaining_qty
            /\ Ret.remaining_qty <= Ret.initial_qty
    /\ ( /\ call.op = "cancel_order"
         /\ IsSome(get_order(pre, call.order_id))
         /\ call.qty >= Unwrap(get_order(pre, call.order_id)).remaining_qty )
         => (IsSome(call.ret) /\ Ret.remaining_qty = 0)

\* C15 witness: a resting order was cancelled for more than it had left.
C15_Witness ==
    /\ call.op = "cancel_order"
    /\ IsSome(get_order(pre, call.order_id))
    /\ call.qty > Unwrap(get_order(pre, call.order_id)).remaining_qty
    /\ IsSome(call.ret)
    /\ Ret.remaining_qty = 0

\* The SystemLevel orders resting at price p on side s of a book.
SystemOrdersAt(ob, s, p) ==
    {r \in RestingIn(ob) :
        r.side = s /\ r.price = p /\ r.order.order_type.kind = "SystemLevel"}

\* C16: SystemLevel merge.  When a SystemLevel(P) request with P > 0 is added
\* without crossing on a side where an earlier SystemLevel(P) insert is still
\* resting, the request carries that order's id and is merged into it: the
\* level at P holds as many orders as before and one SystemLevel order, whose
\* remaining and initial quantities have grown by the request's quantity; the
\* locator has the entries it had, and the best price of the side is the one
\* it was.
C16_SystemLevelMerge ==
    ( /\ IsAdd
      /\ Req.order_type.kind = "SystemLevel"
      /\ Req.order_type.price > 0
      /\ Execs = <<>>
      /\ SystemOrdersAt(pre, Req.side, Req.order_type.price) # {} )
      => LET P == Req.order_type.price
             olds == SystemOrdersAt(pre, Req.side, P)
             news == SystemOrdersAt(Book, Req.side, P)
         IN /\ \A r \in olds : r.order.id = Req.id
            /\ Cardinality(news) = 1
            /\ Len(LevelAt(get_book(Book, Req.side), P))
                 = Len(LevelAt(get_book(pre, Req.side), P))
            /\ \A o \in olds : \A n \in news :
                 /\ n.order.id = o.order.id
                 /\ n.order.remaining_qty = o.order.remaining_qty + Req.qty
                 /\ n.order.initial_qty = o.order.initial_qty + Req.qty
            /\ DOMAIN order_loc = DOMAIN pre.order_loc
            /\ best_price(get_book(Book, Req.side)) = best_price(get_book(pre, Req.side))

\* C16 restricted to a request whose price prints as the resting order's
\* price does (same value and same scale).
C16_SameTextMerges ==
    ( /\ IsAdd
      /\ Req.order_type.kind = "SystemLevel"
      /\ Req.order_type.price > 0
      /\ Execs = <<>>
      /\ \E r \in SystemOrdersAt(pre, Req.side, Req.order_type.price) :
           r.order.order_type.scale = Req.order_type.scale )
      => \E o \in SystemOrdersAt(pre, Req.side, Req.order_type.price) :
           \E n \in SystemOrdersAt(Book, Req.side, Req.order_type.price) :
             /\ o.order.id = Req.id
             /\ n.order.id = Req.id
             /\ n.index = o.index
             /\ n.order.remaining_qty = o.order.remaining_qty + Req.qty
             /\ n.order.initial_qty = o.order.initial_qty + Req.qty
             /\ Len(LevelAt(get_book(Book, Req.side), Req.order_type.price))
                  = Len(LevelAt(get_book(pre, Req.side), Req.order_type.price))

\* ------------------------------------------------- callers that supply ids
\* A second specification: the callers build their requests with
\* OrderRequest::new_with_id as well, reusing an id they were issued once its
\* order is no longer resting, and submit larger quantities; they use Market
\* and Limit orders only.
LargeQtys == 1..(MaxQty + 1)

PlainTypes == {Market} \cup {Limit(p) : p \in Prices}

\* OrderRequest::new_with_id
OrderRequest_new_with_id(id, side, qty, order_type) ==
    [id |-> id, side |-> side, qty |-> qty, order_type |-> order_type]

\* The ids issued earlier that no resting order has now.
ReusableIds ==
    {id \in 1..(nextId - 1) :
        \A s \in Sides : \A p \in DOMAIN get_book(Book, s).price_levels :
            HalfBook_find(get_book(Book, s), p, id) = 0}

\* The requests these callers build: OrderRequest::new for a Market or Limit
\* order, and OrderRequest::new_with_id for a Limit order under a reusable id.
CallerRequests ==
    {OrderRequest_new(side, qty, order_type, nextId) :
        side \in Sides, qty \in LargeQtys, order_type \in PlainTypes}
      \cup {OrderRequest_new_with_id(id, side, qty, Limit(p)) :
              id \in ReusableIds, side \in Sides, qty \in Qtys, p \in Prices}

\* book.add_order(order) for a request of these callers
AddCallerOrder ==
    /\ ~panicked
    /\ steps < MaxOps
    /\ \E order \in CallerRequests :
         LET r == add_order(Book, order)
         IN /\ asks' = r.ob.asks
            /\ bids' = r.ob.bids
            /\ order_loc' = r.ob.order_loc
            /\ panicked' = r.panicked
            /\ nextId' = IF order.id = nextId THEN nextId + 1 ELSE nextId
            /\ call' = [op |-> "add_order", request |-> Some(order), order_id |-> order.id,
                        qty |-> order.qty,
                        ret |-> IF r.panicked THEN None ELSE Some(r.result),
                        executions |-> IF r.panicked THEN <<>> ELSE r.executions]
    /\ pre' = Book
    /\ steps' = steps + 1
    /\ UNCHANGED depthVars

NextIds == AddCallerOrder \/ CancelOrder \/ DeleteOrder \/ Clear

SpecIds == Init /\ [][NextIds]_vars

\* C17: partial cancel.  A cancel_order(id, qty) on a resting order with
\* 0 < qty < remaining_qty, whatever fills the order has, returns a result
\* with status Open and the reduced remaining quantity, and leaves the order
\* where it was, findable by id, with remaining_qty reduced by exactly qty
\* and nothing else changed.
C17_PartialCancel ==
    ( /\ call.op = "cancel_order"
      /\ IsSome(get_order(pre, call.order_id))
      /\ call.qty < Unwrap(get_order(pre, call.order_id)).remaining_qty )
      => LET old == Unwrap(get_order(pre, call.order_id))
         IN /\ IsSome(call.ret)
            /\ Ret.status = "Open"
            /\ Ret.remaining_qty = old.remaining_qty - call.qty
            /\ get_order(Book, call.order_id)
                 = Some([old EXCEPT !.remaining_qty = @ - call.qty])
            /\ get_order_mut(Book, call.order_id) = get_order_mut(pre, call.order_id)

\* C17 restricted to what the code does: the status is Open for an order
\* without fills and PartiallyFilled for an order with fills.
C17_PartialCancelStatus ==
    ( /\ call.op = "cancel_order"
      /\ IsSome(get_order(pre, call.order_id))
      /\ call.qty < Unwrap(get_order(pre, call.order_id)).remaining_qty )
      => LET old == Unwrap(get_order(pre, call.order_id))
         IN /\ IsSome(call.ret)
            /\ Ret.status = IF old.fills = <<>> THEN "Open" ELSE "PartiallyFilled"
            /\ Ret.remaining_qty = old.remaining_qty - call.qty
            /\ get_order(Book, call.order_id)
                 = Some([old EXCEPT !.remaining_qty = @ - call.qty])

\* The resting orders of a book that carry the given id.
RestingWithId(ob, id) == {r \in RestingIn(ob) : r.order.id = id}

\* A half-book with the order at index i of its level at price p taken out,
\* and the level with it when it was the only one.
Without(hb, p, i) ==
    LET rest == RemoveAt(hb.price_levels[p], i)
    IN IF rest = <<>>
       THEN [hb EXCEPT !.price_levels = MapRemove(@, p), !.price_set = @ \ {p}]
       ELSE [hb EXCEPT !.price_levels[p] = rest]

C19_DeleteOrder ==
    call.op = "delete_order" =>
      /\ \A r \in RestingWithId(pre, call.order_id) :
           /\ call.ret = Some(OrderResult_cancelled(r.order))
           /\ Ret.status = "Cancelled"
           /\ get_book(Book, r.side) = Without(get_book(pre, r.side), r.price, r.index)
           /\ get_opposite_book(Book, r.side) = get_opposite_book(pre, r.side)
           /\ DOMAIN order_loc = DOMAIN pre.order_loc \ {call.order_id}
           /\ \A id \in DOMAIN order_loc : order_loc[id] = pre.order_loc[id]
      /\ RestingWithId(pre, call.order_id) = {}
           => /\ call.ret = None
              /\ asks = pre.asks
              /\ bids = pre.bids
      /\ RestingWithId(Book, call.order_id) = {}
      /\ delete_order(Book, call.order_id).ret = None
      /\ delete_order(Book, call.order_id).ob = Book

\* C19 witness: the second of two orders queued at one price was deleted and
\* the first is still at the front of the level.
C19_Witness ==
    /\ call.op = "delete_order"
    /\ IsSome(call.ret)
    /\ \E r \in RestingWithId(pre, call.order_id) :
         /\ r.index = 2
         /\ LevelAt(get_book(Book, r.side), r.price)
              = <<get_book(pre, r.side).price_levels[r.price][1]>>

\* C20: a submission never fails.  Where every Limit request carries an id
\* that no resting order has (generated, or supplied by the caller, an id of
\* an order since filled or deleted included), every add_order returns a
\* result: neither the locator assertion of add_limit_order nor the merge
\* assertion of add_system_order fails.
C20_SubmissionNeverFails ==
    /\ ~panicked
    /\ call.op = "add_order" => IsSome(call.ret)

\* C21: Open means resting.  Whenever add_order returns status Open, for a
\* Limit(P) or SystemLevel(P) request of any price P >= 0, get_order of the
\* result's id returns an order on the request's side with the remaining
\* quantity the result reports.
C21_OpenMeansResting ==
    (IsAdd /\ Ret.status = "Open")
      => /\ IsSome(get_order(Book, Ret.trade_id))
         /\ Unwrap(get_order(Book, Ret.trade_id)).side = Req.side
         /\ Unwrap(get_order(Book, Ret.trade_id)).remaining_qty = Ret.remaining_qty

\* C21 restricted to Limit requests with a price above zero.
C21_PositiveLimitRests ==
    (IsAdd /\ Ret.status = "Open" /\ Req.order_type.kind = "Limit"
           /\ Req.order_type.price > 0)
      => /\ IsSome(get_order(Book, Ret.trade_id))
         /\ Unwrap(get_order(Book, Ret.trade_id)).side = Req.side
         /\ Unwrap(get_order(Book, Ret.trade_id)).remaining_qty = Ret.remaining_qty

\* C22: outcome taxonomy.  The status add_order returns is Filled or
\* PartiallyFilled exactly when it returns executions; a Cancelled result
\* comes with no execution and with both half-books and the locator as they
\* were before the call, and is that of a FOK, a Market or an IOC request.
C22_OutcomeTaxonomy ==
    IsAdd =>
      /\ (Ret.status \in {"Filled", "PartiallyFilled"}) <=> (Execs # <<>>)
      /\ Ret.status = "Cancelled"
           => /\ Execs = <<>>
              /\ Book = pre
              /\ Req.order_type.kind \in {"FOK", "Market", "IOC"}

\* C22 witness: a Market order took all there was on the opposite side and
\* came back PartiallyFilled with a residual.
C22_Witness ==
    /\ IsAdd
    /\ Req.order_type.kind = "Market"
    /\ Ret.status = "PartiallyFilled"
    /\ Execs # <<>>
    /\ Ret.remaining_qty > 0

\* C23: empty-level pruning.  In every state add_order, cancel_order and
\* delete_order leave, no level of either half-book has an empty queue, and
\* in each half-book price_set is the key set of price_levels.
C23_EmptyLevelPruning ==
    \A s \in Sides :
        /\ \A p \in DOMAIN get_book(Book, s).price_levels :
               get_book(Book, s).price_levels[p] # <<>>
        /\ get_book(Book, s).price_set = DOMAIN get_book(Book, s).price_levels

\* C23 witness: a taker emptied one opposite level, which is gone, and
\* another opposite level is still there.
C23_Witness ==
    /\ IsAdd
    /\ Execs # <<>>
    /\ \E p \in get_opposite_book(pre, Req.side).price_set :
         p \notin get_opposite_book(Book, Req.side).price_set
    /\ get_opposite_book(Book, Req.side).price_set # {}

\* The prices at which a half-book holds a resting order.
OccupiedPrices(hb) == {r.price : r \in Resting(hb)}

\* The least and the greatest of a non-empty set of prices.
MinOf(S) == CHOOSE x \in S : \A y \in S : x <= y
MaxOf(S) == CHOOSE x \in S : \A y \in S : x >= y

RECURSIVE SumRemaining(_)
\* The total remaining quantity of a set of resting orders.
SumRemaining(S) ==
    IF S = {} THEN 0
    ELSE LET r == CHOOSE x \in S : TRUE
         IN r.order.remaining_qty + SumRemaining(S \ {r})

\* C24: best price.  best_ask() is the lowest price at which an ask rests and
\* best_bid() the highest price at which a bid rests; each is none exactly
\* when its side holds no resting order.
C24_BestPrice ==
    /\ best_ask(Book) = IF OccupiedPrices(asks) = {} THEN None
                        ELSE Some(MinOf(OccupiedPrices(asks)))
    /\ best_bid(Book) = IF OccupiedPrices(bids) = {} THEN None
                        ELSE Some(MaxOf(OccupiedPrices(bids)))
    /\ IsSome(best_ask(Book)) <=> (Resting(asks) # {})
    /\ IsSome(best_bid(Book)) <=> (Resting(bids) # {})

\* C24 witness: a taker consumed the best opposite level and the best price
\* of that side moved to the next level.
C24_Witness ==
    /\ IsAdd
    /\ IsSome(best_price(get_opposite_book(pre, Req.side)))
    /\ IsSome(best_price(get_opposite_book(Book, Req.side)))
    /\ best_price(get_opposite_book(pre, Req.side))
         # best_price(get_opposite_book(Book, Req.side))

\* C25: spread.  spread() is best_ask - best_bid when an ask and a bid rest
\* and the lowest ask is above the highest bid, and none otherwise.
C25_Spread ==
    spread(Book) =
      IF /\ OccupiedPrices(asks) # {}
         /\ OccupiedPrices(bids) # {}
         /\ MinOf(OccupiedPrices(asks)) > MaxOf(OccupiedPrices(bids))
      THEN Some(MinOf(OccupiedPrices(asks)) - MaxOf(OccupiedPrices(bids)))
      ELSE None

\* C25 witness: both sides hold orders and the spread is a positive number.
C25_Witness ==
    /\ Resting(asks) # {}
    /\ Resting(bids) # {}
    /\ IsSome(spread(Book))
    /\ Unwrap(spread(Book)) > 0

\* C26: get_order_book_state.  The ask levels and the bid levels are each in
\* strictly descending price order, with one (price, quantity) entry per
\* price at which that side holds an order, the quantity being the sum of the
\* remaining quantities of the orders resting there.
C26_OrderBookState ==
    LET shown == get_order_book_state(Book)
        Good(levels, hb) ==
            /\ \A i \in 1..Len(levels) : \A j \in 1..Len(levels) :
                 i < j => levels[i][1] > levels[j][1]
            /\ {levels[i][1] : i \in 1..Len(levels)} = OccupiedPrices(hb)
            /\ \A i \in 1..Len(levels) :
                 levels[i][2] = SumRemaining({r \in Resting(hb) : r.price = levels[i][1]})
    IN Good(shown.asks, asks) /\ Good(shown.bids, bids)

\* C26 witness: the ask side has two levels, one of them holding two orders.
C26_Witness ==
    /\ Len(get_order_book_state(Book).asks) = 2
    /\ \E p \in DOMAIN asks.price_levels : Len(asks.price_levels[p]) = 2

\* The last call was a SystemLevel(P) taker that met, on the opposite side at
\* P, a resting SystemLevel order with its own id, took all that order had
\* and was left with a residual.
SystemLevelCross ==
    /\ IsAdd
    /\ Req.order_type.kind = "SystemLevel"
    /\ Ret.remaining_qty > 0
    /\ \E m \in SystemOrdersAt(pre, opposite(Req.side), Req.order_type.price) :
         /\ m.order.id = Req.id
         /\ FilledOf(Execs, Req.id, Req.order_type.price) = m.order.remaining_qty

\* C27: SystemLevel cross.  When a SystemLevel(P) taker exhausts a resting
\* SystemLevel(P) order of the same id on the opposite side and is left with
\* a residual r > 0, the call returns PartiallyFilled; the opposite level at P
\* is gone; the residual rests on the taker's own side at P with remaining
\* quantity r and is the only order with the id; get_order(id) returns it,
\* and the locator entry of the id names the taker's side.
C27_SystemLevelCross ==
    SystemLevelCross =>
      LET P == Req.order_type.price
          own == LevelAt(get_book(Book, Req.side), P)
      IN /\ Ret.status = "PartiallyFilled"
         /\ P \notin get_opposite_book(Book, Req.side).price_set
         /\ P \notin DOMAIN get_opposite_book(Book, Req.side).price_levels
         /\ Cardinality(RestingWithId(Book, Req.id)) = 1
         /\ own # <<>>
         /\ own[Len(own)].id = Req.id
         /\ own[Len(own)].remaining_qty = Ret.remaining_qty
         /\ Ret.remaining_qty = Req.qty - SumExecQty(Execs)
         /\ get_order(Book, Req.id) = Some(own[Len(own)])
         /\ own[Len(own)].side = Req.side
         /\ order_loc[Req.id] = [side |-> Req.side, price |-> P]

\* C27 witness: such a cross happened, and before it the locator named the
\* opposite side for the id.
C27_Witness ==
    /\ SystemLevelCross
    /\ pre.order_loc[Req.id].side = opposite(Req.side)
    /\ IsSome(get_order(Book, Req.id))

\* C28: get_available_quantity.  On either half-book and for every target
\* price, the result is the sum of the remaining quantities of the orders
\* resting at prices p <= target (asks) or p >= target (bids), which is 0
\* when no level lies in that window.
C28_AvailableQuantity ==
    \A s \in Sides : \A target \in 0..(MaxPrice + 1) :
        get_available_quantity(get_book(Book, s), target) =
          SumRemaining({r \in Resting(get_book(Book, s)) :
                          IF s = "Ask" THEN r.price <= target ELSE r.price >= target})

\* C28 witness: a half-book has a level inside and a level outside the window
\* of some target, so that widening the target raises the result.
C28_Witness ==
    \E s \in Sides : \E t1 \in Prices : \E t2 \in Prices :
        /\ get_available_quantity(get_book(Book, s), t1) > 0
        /\ get_available_quantity(get_book(Book, s), t1)
             < get_available_quantity(get_book(Book, s), t2)

\* C29: aggregate queries agree with the levels.  get_total_volume() is the
\* sum of the remaining quantities of all resting orders; get_depth() is the
\* pair of the numbers of prices at which asks and bids rest;
\* get_volume_at_price(side, p) is the sum of the remaining quantities at p
\* where orders rest at p on that side and none where they do not.
C29_AggregateQueries ==
    /\ get_total_volume(Book) = SumRemaining(AllResting)
    /\ get_depth(Book) = <<Cardinality(OccupiedPrices(asks)),
                           Cardinality(OccupiedPrices(bids))>>
    /\ \A s \in Sides : \A p \in 0..(MaxPrice + 1) :
         get_volume_at_price(Book, s, p) =
           IF p \in OccupiedPrices(get_book(Book, s))
           THEN Some(SumRemaining({r \in Resting(get_book(Book, s)) : r.price = p}))
           ELSE None

\* C29 witness: both sides hold orders and one level holds two of them.
C29_Witness ==
    /\ Resting(asks) # {}
    /\ Resting(bids) # {}
    /\ \E r \in AllResting : r.index = 2

\* s is an initial segment of t.
IsPrefix(s, t) == Len(s) <= Len(t) /\ SubSeq(t, 1, Len(s)) = s

C31_Clear ==
    /\ call.op = "clear"
         => /\ is_empty(Book)
            /\ best_bid(Book) = None
            /\ best_ask(Book) = None
            /\ OrderBook_get_order_count(Book) = 0
            /\ DOMAIN order_loc = {}
            /\ AllResting = {}
            /\ Book = OrderBook_default
    /\ (IsAdd /\ pre = OrderBook_default)
         => /\ Execs = <<>>
            /\ Ret = OrderResult_from(TradeOrder_from(Req))
                 \/ Ret = OrderResult_from_request(Req)

\* C31 witness: clear() was called on a book that held a resting order and a
\* locator entry without one.
C31_Witness ==
    /\ call.op = "clear"
    /\ RestingIn(pre) # {}
    /\ \E id \in DOMAIN pre.order_loc : RestingWithId(pre, id) = {}
    /\ Book = OrderBook_default

\* C32: the book is never crossed.  Whenever both sides hold orders, best_bid
\* is strictly below best_ask, so that spread() is defined whenever both best
\* prices exist.
C32_NeverCrossed ==
    (IsSome(best_bid(Book)) /\ IsSome(best_ask(Book)))
      => /\ Unwrap(best_bid(Book)) < Unwrap(best_ask(Book))
         /\ IsSome(spread(Book))
         /\ \A a \in Resting(asks) : \A b \in Resting(bids) : b.price < a.price

\* C32 witness: a taker took what its limit allowed on the opposite side and
\* came to rest with its residual while the opposite side still holds orders.
C32_Witness ==
    /\ IsAdd
    /\ Execs # <<>>
    /\ RestingWithId(Book, Req.id) # {}
    /\ Resting(get_opposite_book(Book, Req.side)) # {}

\* C33: book-level volume conservation.  In every add_order call the
\* executed total equals the request's quantity less the remaining quantity
\* reported, and equals the loss of resting volume on the opposite side; the
\* taker's own side gains the residual when the order comes to rest (a Limit
\* or SystemLevel request with a price above zero) and nothing otherwise.
C33_VolumeConservation ==
    IsAdd =>
      LET executed == SumExecQty(Execs)
          opp_before == SumRemaining(Resting(get_opposite_book(pre, Req.side)))
          opp_after == SumRemaining(Resting(get_opposite_book(Book, Req.side)))
          own_before == SumRemaining(Resting(get_book(pre, Req.side)))
          own_after == SumRemaining(Resting(get_book(Book, Req.side)))
          rests == RestingWithId(Book, Req.id) # {} /\ Ret.remaining_qty > 0
      IN /\ executed = Ret.initial_qty - Ret.remaining_qty
         /\ Ret.initial_qty = Req.qty
         /\ executed = opp_before - opp_after
         /\ own_after - own_before = IF rests THEN Ret.remaining_qty ELSE 0
         /\ rests <=> ( /\ Req.order_type.kind \in {"Limit", "SystemLevel"}
                        /\ Req.order_type.price > 0
                        /\ Ret.remaining_qty > 0 )

\* C33 witness: a taker was filled completely out of a maker that keeps a
\* residual in the book.
C33_Witness ==
    /\ IsAdd
    /\ Ret.remaining_qty = 0
    /\ \E k \in 1..Len(Execs) :
         HalfBook_find(get_opposite_book(Book, Req.side), Execs[k].price,
                       Execs[k].maker_order_id) # 0
    /\ Req.order_type.kind \in {"Limit", "SystemLevel"}

\* C34: a partial cancel keeps time priority.  After cancel_order(id, qty)
\* with qty below the order's remaining quantity, the order is at the index
\* of its level where it was, with only its remaining quantity changed; every
\* other order of the level, every other level, the opposite half-book and
\* the locator are as they were.
C34_PartialCancelKeepsPriority ==
    \A r \in RestingWithId(pre, call.order_id) :
        (call.op = "cancel_order" /\ call.qty < r.order.remaining_qty)
          => /\ get_book(Book, r.side) =
                  [get_book(pre, r.side) EXCEPT
                      !.price_levels[r.price][r.index].remaining_qty = @ - call.qty]
             /\ LevelAt(get_book(Book, r.side), r.price)[r.index].id = call.order_id
             /\ Len(LevelAt(get_book(Book, r.side), r.price))
                  = Len(LevelAt(get_book(pre, r.side), r.price))
             /\ get_opposite_book(Book, r.side) = get_opposite_book(pre, r.side)
             /\ order_loc = pre.order_loc

\* C34 witness: the first of two orders queued at one price was cancelled in
\* part and is still first.
C34_Witness ==
    /\ call.op = "cancel_order"
    /\ IsSome(call.ret)
    /\ \E r \in RestingWithId(Book, call.order_id) :
         /\ r.index = 1
         /\ Len(LevelAt(get_book(Book, r.side), r.price)) = 2
         /\ r.order.remaining_qty < LevelAt(get_book(pre, r.side), r.price)[1].remaining_qty

\* The last call was a SystemLevel request merged into the resting order of
\* its id.
SystemLevelMerged ==
    /\ IsAdd
    /\ Req.order_type.kind = "SystemLevel"
    /\ \E o \in SystemOrdersAt(pre, Req.side, Req.order_type.price) : o.order.id = Req.id

\* C35: a SystemLevel merge keeps the queue position.  When a SystemLevel(P)
\* request is merged into the resting order of its id, the level at P has the
\* length it had and the same orders at the same indices, the merged order
\* in its old place with the request's quantity added; nothing is appended.
\* The result returned reports the request alone: initial_qty and
\* remaining_qty are the request's quantity, not the merged totals.
C35_MergeKeepsPosition ==
    SystemLevelMerged =>
      LET P == Req.order_type.price
          old == LevelAt(get_book(pre, Req.side), P)
          new == LevelAt(get_book(Book, Req.side), P)
      IN /\ Execs = <<>>
         /\ Len(new) = Len(old)
         /\ \A i \in 1..Len(old) :
              IF old[i].id = Req.id
              THEN new[i] = [old[i] EXCEPT !.remaining_qty = @ + Req.qty,
                                           !.initial_qty = @ + Req.qty]
              ELSE new[i] = old[i]
         /\ Ret.initial_qty = Req.qty
         /\ Ret.remaining_qty = Req.qty
         /\ Ret.fills = <<>>

\* C35 witness: the merged order is first in a level of two and the order
\* behind it is not a SystemLevel order.
C35_Witness ==
    /\ SystemLevelMerged
    /\ LET new == LevelAt(get_book(Book, Req.side), Req.order_type.price)
       IN /\ Len(new) = 2
          /\ new[1].id = Req.id
          /\ new[1].remaining_qty > Req.qty
          /\ new[2].order_type.kind = "Limit"

\* C36 as far as the ids go: no id occurs twice among the resting orders.
C36_UniqueIds ==
    \A a \in AllResting : \A b \in AllResting : a.order.id = b.order.id => a = b

\* C36: resting ids are unique.  With the ids generate_id produces, no id
\* occurs more than once across the levels of both half-books, and hence no
\* price holds more than one resting SystemLevel order.
C36_RestingIdsUnique ==
    /\ C36_UniqueIds
    /\ \A p \in Prices :
         Cardinality({r \in AllResting :
                         r.price = p /\ r.order.order_type.kind = "SystemLevel"}) <= 1

\* C37: add-then-delete round trip.  In every reachable state, for every
\* Limit(P) request under a generated id whose add_order returns no
\* execution, delete_order with the request's id on the book the add leaves
\* gives back the book as it was: the levels, the price sets and the locator.
C37_AddDeleteRoundTrip ==
    \A side \in Sides : \A qty \in Qtys : \A p \in Prices :
        LET request == OrderRequest_new(side, qty, Limit(p), nextId)
            added == add_order(Book, request)
        IN (~added.panicked /\ added.executions = <<>>)
             => /\ delete_order(added.ob, request.id).ob = Book
                /\ p > 0 => /\ IsSome(delete_order(added.ob, request.id).ret)
                            /\ added.ob # Book

\* C37 witness: the last call deleted the order the latest Limit request had
\* put at the back of a level where another order rests; adding that request
\* to the book as it is now gives the book the delete started from.
C37_Witness ==
    /\ call.op = "delete_order"
    /\ IsSome(call.ret)
    /\ call.order_id = nextId - 1
    /\ Ret.order_type.kind = "Limit"
    /\ LevelAt(get_book(Book, Ret.side), Ret.order_type.price) # <<>>
    /\ LET request == OrderRequest_new_with_id(call.order_id, Ret.side, Ret.initial_qty,
                                               Ret.order_type)
       IN /\ add_order(Book, request).executions = <<>>
          /\ add_order(Book, request).ob = pre

\* C38: execution records are well-formed.  Every TradeExecution add_order
\* returns names the request's id as taker and the request's side as take
\* side, names as maker the id of an order resting on the opposite side
\* before the call, at the execution's price, and has a quantity above zero.
C38_ExecutionsWellFormed ==
    IsAdd =>
      \A k \in 1..Len(Execs) :
        /\ Execs[k].taker_order_id = Req.id
        /\ Execs[k].take_side = Req.side
        /\ Execs[k].qty > 0
        /\ \E m \in Resting(get_opposite_book(pre, Req.side)) :
             /\ m.order.id = Execs[k].maker_order_id
             /\ m.price = Execs[k].price
             /\ m.order.side = opposite(Req.side)

\* C38 witness: one call returned two executions against two makers queued
\* at the same price.
C38_Witness ==
    /\ IsAdd
    /\ Len(Execs) = 2
    /\ Execs[1].price = Execs[2].price
    /\ Execs[1].maker_order_id # Execs[2].maker_order_id

\* The ids of the orders the last add_order filled completely: the makers it
\* exhausted, and the taker when nothing of it remains.
CompletelyFilled ==
    {Execs[k].maker_order_id : k \in
        {j \in 1..Len(Execs) :
            HalfBook_find(get_opposite_book(Book, Req.side), Execs[j].price,
                          Execs[j].maker_order_id) = 0}}
      \cup (IF Ret.remaining_qty = 0 THEN {Req.id} ELSE {})

IdRange(update) ==
    [first_update_id |-> update.first_update_id, final_update_id |-> update.final_update_id]

\* The updates that wait in the channel while the snapshot is fetched.
BufferedUpdates == {u \in DepthUpdates : u.asks = <<>>}

Buffers == UNION {[1..n -> BufferedUpdates] : n \in 0..MaxBuffer}

\* StateComponent::start, steps 4 and 5: the snapshot is fetched and applied
ApplySnapshot ==
    /\ phase = "created"
    /\ \E snapshot \in DepthSnapshots :
         state' = apply_snapshot(state, snapshot)
    /\ phase' = "buffering"
    /\ feed' = [op |-> "apply_snapshot", updates |-> <<>>, result |-> "Ok"]
    /\ state_pre' = state
    /\ UNCHANGED bookVars

\* StateComponent::start, step 6: the buffered updates are processed; an
\* error ends start
ProcessBuffer ==
    /\ phase = "buffering"
    /\ \E buffer \in Buffers :
         LET r == process_buffer(state, buffer)
         IN /\ state' = r.state
            /\ phase' = IF r.result = "Ok" THEN "streaming" ELSE "failed"
            /\ feed' = [op |-> "process_buffer",
                        updates |-> [k \in 1..Len(buffer) |-> IdRange(buffer[k])],
                        result |-> r.result]
    /\ state_pre' = state
    /\ UNCHANGED bookVars

\* StateComponent::start, the loop: one DataMessage::Update is processed; an
\* error is reported on the control channel and the loop goes on
ProcessUpdate ==
    /\ phase = "streaming"
    /\ \E update \in DepthUpdates :
         LET r == process_update(state, update)
         IN /\ state' = r.state
            /\ feed' = [op |-> "process_update", updates |-> <<IdRange(update)>>,
                        result |-> r.result]
    /\ state_pre' = state
    /\ UNCHANGED <<phase, bookVars>>

NextDepth == ApplySnapshot \/ ProcessBuffer \/ ProcessUpdate

SpecDepth == Init /\ [][NextDepth]_vars

\* The update of the last process_update call, and the id the book had.
LastUpdate == feed.updates[1]

LastIdBefore == state_pre.last_update_id

\* C40 as stated: every update with first_update_id > last_update_id + 1 is
\* rejected with an error and changes nothing, whatever its final_update_id.
C40_GapAlwaysRejected ==
    (feed.op = "process_update" /\ LastUpdate.first_update_id > LastIdBefore + 1)
      => (feed.result = "Err" /\ state = state_pre)

\* C40: depth-feed sequencing.  Over the process_update calls (and over
\* process_buffer) last_update_id never decreases; process_update changes the
\* book only if final_update_id > last_update_id and first_update_id <=
\* last_update_id + 1, and then last_update_id is the update's
\* final_update_id; an update with final_update_id <= last_update_id is
\* ignored, an update with final_update_id > last_update_id and
\* first_update_id > last_update_id + 1 is rejected with an error, and both
\* leave bids, asks and last_update_id as they were.
C40_DepthFeedSequencing ==
    /\ feed.op \in {"process_update", "process_buffer"}
         => state.last_update_id >= LastIdBefore
    /\ feed.op = "process_update" =>
         /\ state # state_pre
              => /\ LastUpdate.final_update_id > LastIdBefore
                 /\ LastUpdate.first_update_id <= LastIdBefore + 1
         /\ ( /\ LastUpdate.final_update_id > LastIdBefore
              /\ LastUpdate.first_update_id <= LastIdBefore + 1 )
              => /\ state.last_update_id = LastUpdate.final_update_id
                 /\ feed.result = "Ok"
         /\ LastUpdate.final_update_id <= LastIdBefore
              => /\ state = state_pre
                 /\ feed.result = "Ok"
         /\ ( /\ LastUpdate.final_update_id > LastIdBefore
              /\ LastUpdate.first_update_id > LastIdBefore + 1 )
              => /\ state = state_pre
                 /\ feed.result = "Err"

\* C40 witness: process_update applied an update whose range starts at or
\* below the book's id and ends more than one above it, and the bids changed.
C40_Witness ==
    /\ feed.op = "process_update"
    /\ LastIdBefore > 0
    /\ LastUpdate.first_update_id <= LastIdBefore
    /\ LastUpdate.final_update_id > LastIdBefore + 1
    /\ state.last_update_id = LastUpdate.final_update_id
    /\ state.bids # state_pre.bids
====
